---- MODULE Spec2Model ----
(***************************************************************************)
(* Experience replay stores of src/src/buffer.py:                          *)
(*   ReplayBuffer             ring buffer with uniform sampling            *)
(*   PrioritizedReplayBuffer  ring buffer with a flat priority array       *)
(*   SumTree                  array-backed sum tree over a ring of payloads*)
(*   PERBufferSumTree         prioritized buffer on top of SumTree         *)
(*                                                                         *)
(* Arrays are functions over 0..n-1, as in the source.  Priorities are     *)
(* fixed-point numbers in units of 1e-6, so that epsilon (1e-6) is 1 and   *)
(* 1.0 is 1000000; float32 rounding is not modelled, and the exponents     *)
(* alpha and beta range over 0 and 1, for which x ** alpha is exact.       *)
(***************************************************************************)
EXTENDS Integers, Sequences, FiniteSets, TLC

(***************************************************************************)
(* Bounds of the model                                                     *)
(***************************************************************************)
\* largest capacity a buffer is constructed with
MaxCapacity == 3
\* most transitions pushed in one behaviour
MaxPushed == 6
\* largest batch pushed at once
MaxBatch == 4
\* largest batch_size asked of sample
MaxSample == 2
\* frames of SumTree._propagate the interpreter allows before RecursionError
RecursionLimit == 3

\* 1.0 in units of 1e-6
One == 1000000

\* the priority floor 1e-6 in units of 1e-6
Epsilon == 1

VARIABLES
    kind,          \* the class constructed: "uniform" (ReplayBuffer),
                   \* "flat" (PrioritizedReplayBuffer), "sumtree" (SumTree),
                   \* "tree" (PERBufferSumTree)
    capacity,      \* ReplayBuffer.capacity / SumTree.capacity
    alpha,         \* priority exponent
    position,      \* ReplayBuffer.position  (write cursor)
    size,          \* ReplayBuffer.size      (occupied count)
    states,        \* ReplayBuffer.states
    actions,       \* ReplayBuffer.actions
    rewards,       \* ReplayBuffer.rewards
    next_states,   \* ReplayBuffer.next_states
    dones,         \* ReplayBuffer.dones
    priorities,    \* PrioritizedReplayBuffer.priorities
    max_priority,  \* max_priority of either prioritized buffer
    tree,          \* SumTree.tree
    data,          \* SumTree.data
    write,         \* SumTree.write
    n_entries,     \* SumTree.n_entries
    pc,            \* "idle", or "sampling" inside PERBufferSumTree.sample
    loop,          \* locals of PERBufferSumTree.sample while it runs
    pushed,        \* history: transitions pushed so far
    batched,       \* history: some push so far was a batch (ndim == 4)
    result         \* outcome of the last call

vars == <<kind, capacity, alpha, position, size, states, actions, rewards,
          next_states, dones, priorities, max_priority, tree, data, write,
          n_entries, pc, loop, pushed, batched, result>>

\* the fields of SumTree
stVars == <<tree, data, write, n_entries>>

\* the fields of ReplayBuffer
rbVars == <<capacity, position, size, states, actions, rewards, next_states,
            dones>>

Min(a, b) == IF a <= b THEN a ELSE b

Max(a, b) == IF a >= b THEN a ELSE b

(***************************************************************************)
(* Transitions.  The k-th transition handed to push (k = 0, 1, ...) is     *)
(* tagged by its ordinal in every field, so that a slot's content tells    *)
(* which push wrote it; freshly constructed arrays hold zeros.             *)
(***************************************************************************)
Transition(k) ==
    [state |-> k + 1, action |-> k + 1, reward |-> k + 1,
     next_state |-> k + 2, done |-> (k + 1) % 2]

\* ndarray.astype(np.uint8) on an integer frame
AsUint8(x) == x % 256

\* np.zeros(capacity)
Zeros(n) == [i \in 0..(n - 1) |-> 0]

\* a variant of PushIdx that starts one slot late
PushIdxMutant(pos, batch_size, cap) ==
    [k \in 0..(batch_size - 1) |-> (k + pos + 1) % cap]

\* idx = (np.arange(batch_size) + self.position) % self.capacity
PushIdx(pos, batch_size, cap) ==
    [k \in 0..(batch_size - 1) |-> (k + pos) % cap]

\* arr[idx] = vals with an index array: a repeated index keeps the last value
FancyAssign(arr, idx, vals) ==
    [i \in DOMAIN arr |->
        IF \E k \in DOMAIN idx : idx[k] = i
        THEN LET last == CHOOSE k \in DOMAIN idx :
                            /\ idx[k] = i
                            /\ \A m \in DOMAIN idx : idx[m] = i => m <= k
             IN  vals[last]
        ELSE arr[i]]

\* a variant of NextPosition that stops at the last slot instead of wrapping
NextPositionMutant(pos, batch_size, cap) == Min(pos + batch_size, cap - 1)

\* self.position = (self.position + batch_size) % self.capacity
NextPosition(pos, batch_size, cap) == (pos + batch_size) % cap

\* a variant of NextSize that does not clamp
NextSizeMutant(sz, batch_size, cap) == sz + batch_size

\* self.size = min(self.size + batch_size, self.capacity)
NextSize(sz, batch_size, cap) == Min(sz + batch_size, cap)

\* the value a call leaves in result: the call, how it ended, the batch
\* size or number of pairs, the upper bound handed to the index draw, the
\* indices returned (sample) or supplied (update_priorities), the
\* TD-errors or priorities supplied, the weights returned, and for
\* SumTree.get the value s supplied and the payload returned
Outcome(op, status, n, high, indices, errors) ==
    [op |-> op, status |-> status, n |-> n, high |-> high,
     indices |-> indices, errors |-> errors, weights |-> <<>>,
     s |-> 0, payload |-> <<>>]

NoCall == Outcome("init", "ok", 0, 0, <<>>, <<>>)

\* arr[i] with a Python integer index: -n..-1 count from the end
PyIndex(i, n) == IF i < 0 THEN i + n ELSE i

\* whether arr[i] raises IndexError for an array of length n
InRange(i, n) == -n <= i /\ i < n

\* abs(x)
Abs(x) == IF x < 0 THEN -x ELSE x

(***************************************************************************)
(* ReplayBuffer                                                            *)
(***************************************************************************)
\* ReplayBuffer.__init__
RB_Init(cap) ==
    /\ capacity = cap
    /\ position = 0
    /\ size = 0
    /\ states = Zeros(cap)
    /\ actions = Zeros(cap)
    /\ rewards = Zeros(cap)
    /\ next_states = Zeros(cap)
    /\ dones = Zeros(cap)

\* ReplayBuffer.push on a batch of batch_size transitions, the next ones
\* handed over (ordinals pushed .. pushed + batch_size - 1)
RB_push(batch_size) ==
    LET idx == PushIdx(position, batch_size, capacity)
        tr  == [k \in 0..(batch_size - 1) |-> Transition(pushed + k)]
    IN  /\ states' = FancyAssign(states, idx,
                        [k \in DOMAIN tr |-> AsUint8(tr[k].state)])
        /\ actions' = FancyAssign(actions, idx,
                        [k \in DOMAIN tr |-> tr[k].action])
        /\ rewards' = FancyAssign(rewards, idx,
                        [k \in DOMAIN tr |-> tr[k].reward])
        /\ next_states' = FancyAssign(next_states, idx,
                        [k \in DOMAIN tr |-> AsUint8(tr[k].next_state)])
        /\ dones' = FancyAssign(dones, idx,
                        [k \in DOMAIN tr |-> tr[k].done])
        /\ position' = NextPosition(position, batch_size, capacity)
        /\ size' = NextSize(size, batch_size, capacity)
        /\ pushed' = pushed + batch_size
        /\ UNCHANGED capacity

\* a variant of Randint that ignores the keywords it does not know
RandintMutant(low, high, n, kwargs) ==
    IF low >= high
    THEN {Outcome("sample", "ValueError", n, high, <<>>, <<>>)}
    ELSE {Outcome("sample", "ok", n, high, s, <<>>) :
             s \in [1..n -> low..(high - 1)]}

\* np.random.randint(low, high, size, **kwargs): randint takes low, high,
\* size and dtype only, any other keyword is a TypeError; otherwise it
\* draws size integers of [low, high), with repetition, and rejects an
\* empty range
Randint(low, high, n, kwargs) ==
    IF kwargs \ {"dtype"} # {}
    THEN {Outcome("sample", "TypeError", n, high, <<>>, <<>>)}
    ELSE IF low >= high
    THEN {Outcome("sample", "ValueError", n, high, <<>>, <<>>)}
    ELSE {Outcome("sample", "ok", n, high, s, <<>>) :
             s \in [1..n -> low..(high - 1)]}

\* ReplayBuffer.sample: the index draw decides the call
RB_sample(batch_size) ==
    Randint(0, size - 1, batch_size, {"replace"})

(***************************************************************************)
(* PrioritizedReplayBuffer (flat priority array)                           *)
(***************************************************************************)
\* PrioritizedReplayBuffer.__init__, after ReplayBuffer.__init__
PRB_Init(a) ==
    /\ alpha = a
    /\ priorities = Zeros(capacity)
    /\ max_priority = One

\* PrioritizedReplayBuffer.push: the slots written get max_priority
PRB_push(batch_size) ==
    LET start == position
        idxs  == PushIdx(start, batch_size, capacity)
    IN  /\ RB_push(batch_size)
        /\ priorities' = FancyAssign(priorities, idxs,
                            [k \in DOMAIN idxs |-> max_priority])
        /\ UNCHANGED <<alpha, max_priority>>

\* PrioritizedReplayBuffer.sample: the index draw decides the call, the
\* probabilities and the weights are locals of it
PRB_sample(batch_size) ==
    Randint(0, size - 1, batch_size, {"p", "replace"})

\* a variant of FlatPriority without the upper clip
FlatPriorityMutant(prio) == Abs(prio) + Epsilon

\* priority = min(abs(prio) + 1e-6, 1.0)
FlatPriority(prio) == Min(Abs(prio) + Epsilon, One)

\* one (idx, prio) pair of PrioritizedReplayBuffer.update_priorities, on
\* st = [priorities, max_priority, status]
PRB_UpdateOne(st, idx, prio) ==
    LET priority == FlatPriority(prio)
    IN  IF ~InRange(idx, capacity)
        THEN [st EXCEPT !.status = "IndexError"]
        ELSE [st EXCEPT
                !.priorities[PyIndex(idx, capacity)] = priority,
                !.max_priority = Max(st.max_priority, priority)]

\* the loop of PrioritizedReplayBuffer.update_priorities over
\* zip(indices, new_priorities), from pair k on; an exception ends it
RECURSIVE PRB_UpdateLoop(_, _, _, _)
PRB_UpdateLoop(st, indices, errors, k) ==
    IF k > Min(Len(indices), Len(errors)) \/ st.status # "ok"
    THEN st
    ELSE PRB_UpdateLoop(PRB_UpdateOne(st, indices[k], errors[k]),
                        indices, errors, k + 1)

\* the indices a caller may hand to update_priorities for an array of
\* length n: the first and the last valid one, the first past either end,
\* and -1
IndexInputs(n) == {-(n + 1), -1, 0, n - 1, n}

\* the TD-errors a caller may hand to update_priorities (units of 1e-6)
TDErrors == {0, 500000, -2000000}

\* the arguments <<indices, errors>> of an update_priorities call on an
\* array of length n: one pair of any index of idxs and any error, or two
\* pairs that mix the last valid index and the first one past the end
PairSeqs(idxs, errs, n) ==
    {<<(<<i>>), (<<e>>)>> : i \in idxs, e \in errs}
        \cup {<<(<<i, j>>), (<<e, e>>)>> : i \in {n - 1, n}, j \in {n - 1, n},
                                           e \in errs}

(***************************************************************************)
(* SumTree                                                                 *)
(***************************************************************************)
\* len(self.tree)
TreeLen == 2 * capacity - 1

\* an empty payload slot
None == <<>>

\* the payload of the k-th transition handed over:
\* (state, action, reward, next_state, done)
Payload(k) ==
    <<Transition(k).state, Transition(k).action, Transition(k).reward,
      Transition(k).next_state, Transition(k).done>>

\* SumTree.__init__
ST_Init ==
    /\ tree = Zeros(TreeLen)
    /\ data = [i \in 0..(capacity - 1) |-> None]
    /\ write = 0
    /\ n_entries = 0

\* a variant of ST_propagate that stops at the parent
ST_propagateMutant(tr, idx, change, depth) ==
    LET parent == (idx - 1) \div 2
    IN  [tree |-> [tr EXCEPT ![PyIndex(parent, TreeLen)] = @ + change],
         status |-> "ok"]

\* SumTree._propagate, as frame number depth of the recursion: adds change
\* to the parent and recurses unless the parent is the root; a frame past
\* the recursion limit raises RecursionError and keeps what was written
RECURSIVE ST_propagate(_, _, _, _)
ST_propagate(tr, idx, change, depth) ==
    IF depth > RecursionLimit
    THEN [tree |-> tr, status |-> "RecursionError"]
    ELSE LET parent == (idx - 1) \div 2
             tr2    == [tr EXCEPT ![PyIndex(parent, TreeLen)] = @ + change]
         IN  IF parent # 0
             THEN ST_propagate(tr2, parent, change, depth + 1)
             ELSE [tree |-> tr2, status |-> "ok"]

\* SumTree.update(idx, p) on the array tr
ST_update(tr, idx, p) ==
    IF ~InRange(idx, TreeLen)
    THEN [tree |-> tr, status |-> "IndexError"]
    ELSE LET change == p - tr[PyIndex(idx, TreeLen)]
             tr1    == [tr EXCEPT ![PyIndex(idx, TreeLen)] = p]
         IN  ST_propagate(tr1, idx, change, 1)

\* SumTree.add(p, d): the fields after the call and how it ended
ST_add(p, d) ==
    LET idx   == write + capacity - 1
        data1 == [data EXCEPT ![write] = d]
        u     == ST_update(tree, idx, p)
    IN  IF u.status # "ok"
        THEN [tree |-> u.tree, data |-> data1, write |-> write,
              n_entries |-> n_entries, status |-> u.status]
        ELSE [tree |-> u.tree, data |-> data1,
              write |-> (write + 1) % capacity,
              n_entries |-> Min(n_entries + 1, capacity), status |-> "ok"]

\* a variant of ST_retrieve that compares s with the right child
RECURSIVE ST_retrieveMutant(_, _)
ST_retrieveMutant(idx, s) ==
    LET left  == 2 * idx + 1
        right == left + 1
    IN  IF left >= TreeLen
        THEN idx
        ELSE IF s <= tree[right]
             THEN ST_retrieveMutant(left, s)
             ELSE ST_retrieveMutant(right, s - tree[left])

\* SumTree._retrieve(idx, s)
RECURSIVE ST_retrieve(_, _)
ST_retrieve(idx, s) ==
    LET left  == 2 * idx + 1
        right == left + 1
    IN  IF left >= TreeLen
        THEN idx
        ELSE IF s <= tree[left]
             THEN ST_retrieve(left, s)
             ELSE ST_retrieve(right, s - tree[left])

\* SumTree.total()
ST_total == tree[0]

\* SumTree.get(s)
ST_get(s) ==
    LET idx      == ST_retrieve(0, s)
        data_idx == idx - capacity + 1
    IN  [idx |-> idx, p |-> tree[idx], data |-> data[data_idx]]

\* the values of s at which a comparison of _retrieve changes sides
RECURSIVE ST_breaks(_, _)
ST_breaks(idx, off) ==
    LET left == 2 * idx + 1
    IN  IF left >= TreeLen
        THEN {}
        ELSE {off + tree[left]} \cup ST_breaks(left, off)
                 \cup ST_breaks(left + 1, off + tree[left])

\* random.uniform(0, total): one value for each way _retrieve can go, the
\* ends of the range, every break in it and the value just above a break
Uniform(total) ==
    LET lo == Min(0, total)
        hi == Max(0, total)
        B  == ST_breaks(0, 0)
    IN  {x \in {lo, hi} \cup B \cup {b + 1 : b \in B} : lo <= x /\ x <= hi}

(***************************************************************************)
(* PERBufferSumTree                                                        *)
(***************************************************************************)
\* PERBufferSumTree.__init__, after SumTree.__init__
PER_Init(a) ==
    /\ alpha = a
    /\ max_priority = One

\* x ** alpha in fixed point, for the exponents of Alphas
Pow(x, a) == IF a = 0 THEN One ELSE x

\* a variant of TreePriority without epsilon
TreePriorityMutant(p, a) == Pow(Abs(p), a)

\* new_p = (abs(p) + self.epsilon) ** self.alpha
TreePriority(p, a) == Pow(Abs(p) + Epsilon, a)

\* one (idx, p) pair of PERBufferSumTree.update_priorities, on
\* st = [tree, max_priority, status]
PER_UpdateOne(st, idx, p) ==
    LET new_p == TreePriority(p, alpha)
        u     == ST_update(st.tree, idx, new_p)
    IN  IF u.status # "ok"
        THEN [st EXCEPT !.tree = u.tree, !.status = u.status]
        ELSE [st EXCEPT !.tree = u.tree,
                        !.max_priority = Max(st.max_priority, new_p)]

\* the loop of PERBufferSumTree.update_priorities over
\* zip(indices, priorities), from pair k on; an exception ends it
RECURSIVE PER_UpdateLoop(_, _, _, _)
PER_UpdateLoop(st, indices, errors, k) ==
    IF k > Min(Len(indices), Len(errors)) \/ st.status # "ok"
    THEN st
    ELSE PER_UpdateLoop(PER_UpdateOne(st, indices[k], errors[k]),
                        indices, errors, k + 1)

\* the exponents sample is called with
Betas == {0, 1}

\* the least element of a non-empty sequence of numbers
MinOf(seq) == CHOOSE m \in {seq[k] : k \in DOMAIN seq} :
                  \A k \in DOMAIN seq : m <= seq[k]

\* a variant of IsWeights without the division by weights.max()
IsWeightsMutant(P, total, beta) ==
    IF beta = 0
    THEN [k \in DOMAIN P |-> <<1, 1>>]
    ELSE [k \in DOMAIN P |-> <<total, P[k]>>]

\* weights = (N * P / total) ** (-beta); weights /= weights.max(), each
\* weight a fraction <<numerator, denominator>>: with beta = 0 every
\* weight is 1, with beta = 1 weight k over the largest is min(P) / P[k];
\* a priority or a total that is not positive gives inf or nan (<<>>)
IsWeights(P, total, beta) ==
    IF beta = 0
    THEN [k \in DOMAIN P |-> <<1, 1>>]
    ELSE IF total <= 0 \/ \E k \in DOMAIN P : P[k] <= 0
    THEN [k \in DOMAIN P |-> <<>>]
    ELSE [k \in DOMAIN P |-> <<MinOf(P), P[k]>>]

\* a variant of Collects that takes every leaf
CollectsMutant(d) == TRUE

\* a variant of Collects that takes no leaf
CollectsNone(d) == FALSE

\* if data is not None
Collects(d) == d # None

\* the locals of sample outside the call
NoLoop == [batch_size |-> 0, beta |-> 0, batch |-> <<>>, idxs |-> <<>>,
           priorities |-> <<>>]

\* an uncaught RecursionError ends the program
Alive == result.status # "RecursionError"

\* the priorities handed to SumTree.add and SumTree.update directly
TreePriorities == {0, Epsilon, One}

\* the leaves of the tree
Leaves == (capacity - 1)..(2 * capacity - 2)

(***************************************************************************)
(* The calls                                                               *)
(***************************************************************************)
\* push(state, ...) with state.ndim == 3: one transition
PushOne ==
    /\ kind \in {"uniform", "flat"}
    /\ pushed + 1 <= MaxPushed
    /\ \/ kind = "uniform" /\ RB_push(1)
                           /\ UNCHANGED <<alpha, priorities, max_priority>>
       \/ kind = "flat" /\ PRB_push(1)
    /\ result' = Outcome("push", "ok", 1, 0, <<>>, <<>>)
    /\ UNCHANGED <<kind, batched, stVars, pc, loop>>

\* push(state, ...) with state.ndim == 4: state.shape[0] transitions
PushBatch ==
    \E b \in 1..MaxBatch :
        /\ kind \in {"uniform", "flat"}
        /\ pushed + b <= MaxPushed
        /\ \/ kind = "uniform" /\ RB_push(b)
                               /\ UNCHANGED <<alpha, priorities, max_priority>>
           \/ kind = "flat" /\ PRB_push(b)
        /\ result' = Outcome("push", "ok", b, 0, <<>>, <<>>)
        /\ batched' = TRUE
        /\ UNCHANGED <<kind, stVars, pc, loop>>

\* a variant of Sample whose flat sampler divides the stored priorities by
\* their sum in place
SampleMutant ==
    \E batch_size \in 1..MaxSample :
        /\ \/ kind = "uniform" /\ result' \in RB_sample(batch_size)
                               /\ UNCHANGED priorities
           \/ kind = "flat" /\ result' \in PRB_sample(batch_size)
                            /\ priorities' = [i \in DOMAIN priorities |->
                                                 IF i < size THEN 0
                                                 ELSE priorities[i]]
        /\ UNCHANGED <<kind, rbVars, alpha, max_priority,
                       stVars, pc, loop, pushed, batched>>

\* sample(batch_size) of ReplayBuffer, sample(batch_size, beta) of
\* PrioritizedReplayBuffer
Sample ==
    \E batch_size \in 1..MaxSample :
        /\ \/ kind = "uniform" /\ result' \in RB_sample(batch_size)
           \/ kind = "flat" /\ result' \in PRB_sample(batch_size)
        /\ UNCHANGED <<kind, rbVars, alpha, priorities, max_priority,
                       stVars, pc, loop, pushed, batched>>

\* PrioritizedReplayBuffer.update_priorities(indices, new_priorities)
UpdatePriorities ==
    /\ kind = "flat"
    /\ \E pr \in PairSeqs(IndexInputs(capacity), TDErrors, capacity) :
         LET st == PRB_UpdateLoop([priorities |-> priorities,
                                   max_priority |-> max_priority,
                                   status |-> "ok"], pr[1], pr[2], 1)
         IN  /\ priorities' = st.priorities
             /\ max_priority' = st.max_priority
             /\ result' = Outcome("update_priorities", st.status,
                                  Len(pr[1]), 0, pr[1], pr[2])
    /\ UNCHANGED <<kind, rbVars, alpha, stVars, pc, loop, pushed, batched>>

\* SumTree.add(p, data)
SumTreeAdd ==
    /\ kind = "sumtree"
    /\ Alive
    /\ pushed + 1 <= MaxPushed
    /\ \E p \in TreePriorities :
         LET r == ST_add(p, Payload(pushed))
         IN  /\ tree' = r.tree
             /\ data' = r.data
             /\ write' = r.write
             /\ n_entries' = r.n_entries
             /\ result' = Outcome("add", r.status, 1, 0, <<>>, <<p>>)
    /\ pushed' = pushed + 1
    /\ UNCHANGED <<kind, rbVars, alpha, priorities, max_priority, pc, loop,
                   batched>>

\* SumTree.update(idx, p) on a leaf
SumTreeUpdate ==
    /\ kind = "sumtree"
    /\ Alive
    /\ \E idx \in Leaves, p \in TreePriorities :
         LET u == ST_update(tree, idx, p)
         IN  /\ tree' = u.tree
             /\ result' = Outcome("update", u.status, 1, 0, <<idx>>, <<p>>)
    /\ UNCHANGED <<kind, rbVars, alpha, priorities, max_priority, data,
                   write, n_entries, pc, loop, pushed, batched>>

\* SumTree.get(s) for a value s of [0, total()]
SumTreeGet ==
    /\ kind = "sumtree"
    /\ Alive
    /\ \E s \in Uniform(ST_total) :
         LET g == ST_get(s)
         IN  result' = [Outcome("get", "ok", 1, 0, <<g.idx>>, <<g.p>>)
                          EXCEPT !.s = s, !.payload = g.data]
    /\ UNCHANGED <<kind, rbVars, alpha, priorities, max_priority, stVars,
                   pc, loop, pushed, batched>>

\* PERBufferSumTree.push(state, action, reward, next_state, done)
TreePush ==
    /\ kind = "tree"
    /\ Alive
    /\ pc = "idle"
    /\ pushed + 1 <= MaxPushed
    /\ LET r == ST_add(max_priority, Payload(pushed))
       IN  /\ tree' = r.tree
           /\ data' = r.data
           /\ write' = r.write
           /\ n_entries' = r.n_entries
           /\ result' = Outcome("push", r.status, 1, 0, <<>>, <<>>)
    /\ pushed' = pushed + 1
    /\ UNCHANGED <<kind, rbVars, alpha, priorities, max_priority, pc, loop,
                   batched>>

\* PERBufferSumTree.sample(batch_size, beta), up to the loop: the assert
TreeSampleBegin ==
    /\ kind = "tree"
    /\ Alive
    /\ pc = "idle"
    /\ \E batch_size \in 1..MaxSample, beta \in Betas :
         IF n_entries >= batch_size
         THEN /\ pc' = "sampling"
              /\ loop' = [NoLoop EXCEPT !.batch_size = batch_size,
                                        !.beta = beta]
              /\ result' = Outcome("sample", "running", batch_size, 0,
                                   <<>>, <<>>)
         ELSE /\ result' = Outcome("sample", "AssertionError", batch_size,
                                   0, <<>>, <<>>)
              /\ UNCHANGED <<pc, loop>>
    /\ UNCHANGED <<kind, rbVars, alpha, priorities, max_priority, stVars,
                   pushed, batched>>

\* one turn of the loop of PERBufferSumTree.sample; the turn that fills
\* the batch returns it
TreeSampleDraw ==
    /\ kind = "tree"
    /\ pc = "sampling"
    /\ \E s \in Uniform(ST_total) :
         LET g    == ST_get(s)
             next == IF Collects(g.data)
                     THEN [loop EXCEPT !.batch = Append(@, g.data),
                                       !.idxs = Append(@, g.idx),
                                       !.priorities = Append(@, g.p)]
                     ELSE loop
         IN  IF Len(next.batch) < next.batch_size
             THEN /\ loop' = next
                  /\ UNCHANGED <<pc, result>>
             ELSE /\ result' =
                     [Outcome("sample", "ok", next.batch_size, 0,
                              next.idxs, <<>>)
                        EXCEPT !.weights = IsWeights(next.priorities,
                                                     ST_total, next.beta)]
                  /\ pc' = "idle"
                  /\ loop' = NoLoop
    /\ UNCHANGED <<kind, rbVars, alpha, priorities, max_priority, stVars,
                   pushed, batched>>

\* the indices a caller may hand to PERBufferSumTree.update_priorities:
\* those of IndexInputs for the tree array, and the first leaf
TreeIndexInputs == IndexInputs(TreeLen) \cup {capacity - 1}

\* PERBufferSumTree.update_priorities(indices, priorities)
TreeUpdatePriorities ==
    /\ kind = "tree"
    /\ Alive
    /\ pc = "idle"
    /\ \E pr \in PairSeqs(TreeIndexInputs, TDErrors, TreeLen) :
         LET st == PER_UpdateLoop([tree |-> tree,
                                   max_priority |-> max_priority,
                                   status |-> "ok"], pr[1], pr[2], 1)
         IN  /\ tree' = st.tree
             /\ max_priority' = st.max_priority
             /\ result' = Outcome("update_priorities", st.status,
                                  Len(pr[1]), 0, pr[1], pr[2])
    /\ UNCHANGED <<kind, rbVars, alpha, priorities, data, write, n_entries,
                   pc, loop, pushed, batched>>

\* the exponents a prioritized buffer is constructed with
Alphas == {0, 1}

\* a ReplayBuffer or a PrioritizedReplayBuffer is constructed
InitRing ==
    /\ \E cap \in 1..MaxCapacity : RB_Init(cap)
    /\ \/ /\ kind = "uniform"
          /\ alpha = 0
          /\ priorities = <<>>
          /\ max_priority = 0
       \/ /\ kind = "flat"
          /\ \E a \in Alphas : PRB_Init(a)
    /\ tree = <<>>
    /\ data = <<>>
    /\ write = 0
    /\ n_entries = 0

\* a SumTree or a PERBufferSumTree is constructed
InitTree ==
    /\ capacity \in 1..MaxCapacity
    /\ ST_Init
    /\ \/ /\ kind = "sumtree"
          /\ alpha = 0
          /\ max_priority = 0
       \/ /\ kind = "tree"
          /\ \E a \in Alphas : PER_Init(a)
    /\ position = 0
    /\ size = 0
    /\ states = <<>>
    /\ actions = <<>>
    /\ rewards = <<>>
    /\ next_states = <<>>
    /\ dones = <<>>
    /\ priorities = <<>>

Init ==
    /\ InitRing \/ InitTree
    /\ pc = "idle"
    /\ loop = NoLoop
    /\ pushed = 0
    /\ batched = FALSE
    /\ result = NoCall

Next ==
    \/ PushOne
    \/ PushBatch
    \/ Sample
    \/ UpdatePriorities
    \/ SumTreeAdd
    \/ SumTreeUpdate
    \/ SumTreeGet
    \/ TreePush
    \/ TreeSampleBegin
    \/ TreeSampleDraw
    \/ TreeUpdatePriorities

Spec == Init /\ [][Next]_vars

\* a turn of the loop of PERBufferSumTree.sample whose draw ends at a
\* filled leaf, so that the batch grows
TreeSampleCollect ==
    /\ TreeSampleDraw
    /\ pc' = "idle" \/ Len(loop'.batch) > Len(loop.batch)

\* the program with fair draws of random.uniform: a draw that has a
\* positive probability in every turn of the loop is made in the end
FairSpec == Spec /\ WF_vars(TreeSampleCollect)

(***************************************************************************)
(* Ring buffer claims, checked under Spec                            *)
(***************************************************************************)
\* the transition held at slot i
SlotAt(i) ==
    [state |-> states[i], action |-> actions[i], reward |-> rewards[i],
     next_state |-> next_states[i], done |-> dones[i]]

\* the k-th pushed transition as the arrays hold it
Stored(k) ==
    [state |-> AsUint8(Transition(k).state), action |-> Transition(k).action,
     reward |-> Transition(k).reward,
     next_state |-> AsUint8(Transition(k).next_state),
     done |-> Transition(k).done]

\* C1: after pushes of T transitions in total (single or batched), the
\* occupied count is min(T, N), never above N, and the write cursor is
\* T mod N.
Thm_C1_CountAndCursor ==
    kind \in {"uniform", "flat"} =>
        /\ size = Min(pushed, capacity)
        /\ size <= capacity
        /\ position = pushed % capacity

\* a batch has wrapped the ring: more pushed than fits, cursor off zero
Wit_C1_Wrapped ==
    /\ kind = "uniform"
    /\ pushed > capacity
    /\ batched
    /\ size = capacity
    /\ position # 0

\* C2: push always succeeds, and the occupied slots hold exactly the
\* min(T, N) most recently pushed transitions; once more than N were
\* pushed the first one is in no slot.
Thm_C2_MostRecentKept ==
    kind \in {"uniform", "flat"} =>
        /\ result.op = "push" => result.status = "ok"
        /\ {SlotAt(i) : i \in 0..(size - 1)} =
             {Stored(k) : k \in (pushed - Min(pushed, capacity))..(pushed - 1)}
        /\ pushed > capacity =>
             /\ size = capacity
             /\ \A i \in 0..(capacity - 1) : SlotAt(i) # Stored(0)

\* N + 1 single pushes into a store of capacity N > 1
Wit_C2_OneEvicted ==
    /\ kind = "uniform"
    /\ capacity > 1
    /\ ~batched
    /\ pushed = capacity + 1
    /\ size = capacity

\* C3 as stated: after k > capacity single pushes, len() == capacity and
\* slot s holds the (k - capacity + s)-th pushed transition (counting the
\* pushes from 0 or from 1).
CE_C3_SlotHoldsShifted ==
    (kind \in {"uniform", "flat"} /\ ~batched /\ pushed > capacity) =>
        /\ size = capacity
        /\ \/ \A s \in 0..(capacity - 1) :
                 SlotAt(s) = Stored(pushed - capacity + s)
           \/ \A s \in 0..(capacity - 1) :
                 SlotAt(s) = Stored(pushed - capacity + s - 1)

\* C3 amended: after k > capacity single pushes, len() == capacity and the
\* (k - capacity + i)-th pushed transition (from 0), i = 0..capacity-1, is
\* held at slot (k + i) mod capacity.
Thm_C3_RingSlots ==
    (kind \in {"uniform", "flat"} /\ ~batched /\ pushed > capacity) =>
        /\ size = capacity
        /\ \A i \in 0..(capacity - 1) :
              SlotAt((pushed + i) % capacity) = Stored(pushed - capacity + i)

\* single pushes only, past capacity, cursor in the middle of the ring
Wit_C3_SinglesWrapped ==
    /\ kind = "uniform"
    /\ ~batched
    /\ pushed > capacity
    /\ pushed % capacity # 0

(***************************************************************************)
(* Sum tree claims                                                         *)
(***************************************************************************)
\* the sum of f over the finite set S of its indices
RECURSIVE SumOver(_, _)
SumOver(f, S) ==
    IF S = {} THEN 0
    ELSE LET i == CHOOSE j \in S : TRUE
         IN  f[i] + SumOver(f, S \ {i})

\* C4: in a SumTree of any positive capacity, after any sequence of add
\* calls and update calls on leaves, every internal node holds the sum of
\* its two children and the root holds the sum of the leaves.
Thm_C4_SumTreeInvariant ==
    kind = "sumtree" =>
        /\ \A i \in 0..(capacity - 2) : tree[i] = tree[2 * i + 1] + tree[2 * i + 2]
        /\ ST_total = SumOver(tree, Leaves)

\* a full tree of capacity 3 whose leaves differ, after an update
Wit_C4_UpdatedFullTree ==
    /\ kind = "sumtree"
    /\ capacity = 3
    /\ n_entries = capacity
    /\ result.op = "update"
    /\ result.status = "ok"
    /\ tree[2] = One
    /\ tree[3] = Epsilon
    /\ tree[4] = 0

\* C5 as stated, for capacities above 1: in the tree variant
\* update_priorities([i], [e]) for an entry index i of 0..capacity-1
\* (i = 0 included) completes, changes total() by
\* (|e| + epsilon)^alpha minus the priority stored for entry i, and leaves
\* the priority of every other entry as it was.
CE_C5_EntryIndexUpdate ==
    [][(/\ kind = "tree"
        /\ capacity > 1
        /\ result'.op = "update_priorities"
        /\ Len(result'.indices) = 1
        /\ result'.indices[1] \in 0..(capacity - 1))
       => LET i    == result'.indices[1]
              e    == result'.errors[1]
              leaf == capacity - 1 + i
          IN  /\ result'.status = "ok"
              /\ tree'[0] - tree[0] = TreePriority(e, alpha) - tree[leaf]
              /\ \A j \in Leaves \ {leaf} : tree'[j] = tree[j]]_vars

(***************************************************************************)
(* Sampling and priority update claims                                     *)
(***************************************************************************)
\* len(buffer)
Occupancy == IF kind \in {"uniform", "flat"} THEN size ELSE n_entries

\* C6 as stated: for every sampler, sample(batch_size) called while the
\* occupancy is below batch_size fails with the insufficient-data error
\* (here the assertion "Not enough in buffer") and returns no batch.
CE_C6_InsufficientData ==
    (/\ kind \in {"uniform", "flat", "tree"}
     /\ pc = "idle"
     /\ result.op = "sample"
     /\ Occupancy < result.n)
    => /\ result.status = "AssertionError"
       /\ result.indices = <<>>

\* C7 as stated: update_priorities fails with an index-out-of-range error
\* whenever a supplied index lies outside [0, capacity), in the flat and
\* in the tree variant.
CE_C7_IndexOutOfRange ==
    (/\ kind \in {"flat", "tree"}
     /\ result.op = "update_priorities"
     /\ \E k \in DOMAIN result.indices :
            result.indices[k] \notin 0..(capacity - 1))
    => result.status = "IndexError"

\* C8 as stated: for the uniform and the flat sampler, whenever
\* occupied_count >= batch_size, sample(batch_size) returns batch_size
\* pairwise distinct indices of [0, occupied_count).
CE_C8_DistinctIndices ==
    (/\ kind \in {"uniform", "flat"}
     /\ result.op = "sample"
     /\ size >= result.n)
    => /\ result.status = "ok"
       /\ Len(result.indices) = result.n
       /\ \A j, k \in DOMAIN result.indices :
              result.indices[j] = result.indices[k] => j = k
       /\ \A k \in DOMAIN result.indices :
              result.indices[k] \in 0..(size - 1)

\* C9 as stated, for a sample that has enough data: in the uniform and
\* the flat sampler the upper bound of the index draw is occupied_count,
\* so that the last occupied index occupied_count - 1 can be drawn.
CE_C9_DrawUpperBound ==
    (/\ kind \in {"uniform", "flat"}
     /\ result.op = "sample"
     /\ size >= result.n)
    => result.high = size

\* every index of seq is a leaf whose payload slot is filled
FilledLeaves(seq) ==
    \A k \in DOMAIN seq :
        /\ seq[k] \in Leaves
        /\ data[seq[k] - capacity + 1] # None

\* C10: in the tree variant, sample(batch_size, beta) with
\* entry_count >= batch_size >= 1 returns exactly batch_size entries, each a
\* leaf index of [capacity-1, 2*capacity-2] whose payload was filled by a
\* push; an empty leaf is never collected, also while the loop runs.
Thm_C10_TreeSampleFilledLeaves ==
    kind = "tree" =>
        /\ pc = "sampling" =>
              /\ n_entries >= loop.batch_size
              /\ Len(loop.idxs) < loop.batch_size
              /\ FilledLeaves(loop.idxs)
        /\ (pc = "idle" /\ result.op = "sample") =>
              IF n_entries >= result.n
              THEN /\ result.status = "ok"
                   /\ Len(result.indices) = result.n
                   /\ FilledLeaves(result.indices)
              ELSE result.status = "AssertionError"

\* a batch of two returned from a tree of capacity 3 holding two entries
Wit_C10_PartlyFilledTree ==
    /\ kind = "tree"
    /\ capacity = 3
    /\ n_entries = 2
    /\ pc = "idle"
    /\ result.op = "sample"
    /\ result.status = "ok"
    /\ result.n = 2
    /\ result.indices[1] # result.indices[2]

(***************************************************************************)
(* Priority claims                                                         *)
(***************************************************************************)
\* pair k of the update_priorities call in result was processed: the call
\* returned, or it raised IndexError at a later pair
Processed(k) ==
    \/ result.status = "ok"
    \/ /\ result.status = "IndexError"
       /\ \A j \in 1..k : InRange(result.indices[j], IF kind = "flat"
                                                     THEN capacity
                                                     ELSE TreeLen)

\* no processed pair after pair k of the call in result names the same
\* element of an array of length n
LastFor(k, n) ==
    \A j \in DOMAIN result.indices :
        (j > k /\ Processed(j)) =>
            PyIndex(result.indices[j], n) # PyIndex(result.indices[k], n)

\* C11: after update_priorities processes a pair (idx, e), the priority
\* stored for idx is min(|e| + epsilon, 1.0), hence within [epsilon, 1.0],
\* in the flat variant, and exactly (|e| + epsilon)^alpha in the tree
\* variant, for e positive, negative or zero.
Thm_C11_StoredPriority ==
    (kind \in {"flat", "tree"} /\ result.op = "update_priorities") =>
        \A k \in DOMAIN result.indices :
            LET e   == result.errors[k]
                mag == IF e < 0 THEN -e ELSE e
            IN  /\ (kind = "flat" /\ Processed(k) /\ LastFor(k, capacity)) =>
                      LET stored ==
                              priorities[PyIndex(result.indices[k], capacity)]
                      IN  /\ stored = IF mag + Epsilon < One
                                      THEN mag + Epsilon ELSE One
                          /\ stored >= Epsilon
                          /\ stored <= One
                /\ (kind = "tree" /\ Processed(k) /\ LastFor(k, TreeLen)) =>
                      tree[PyIndex(result.indices[k], TreeLen)] =
                          IF alpha = 0 THEN One ELSE mag + Epsilon

\* a flat update that clipped a TD-error of magnitude 2.0 to 1.0
Wit_C11_FlatClipped ==
    /\ kind = "flat"
    /\ result.op = "update_priorities"
    /\ result.status = "ok"
    /\ result.errors = <<-2000000>>
    /\ priorities[PyIndex(result.indices[1], capacity)] = One

\* the slots a push of b transitions writes from write cursor c on
Written(c, b) == {(c + k) % capacity : k \in 0..(b - 1)}

\* C12 as stated: a push seeds the priority of exactly the slots written
\* with the current max_priority. Flat variant: after the push of a batch
\* of length b at write cursor c, priority[(c + k) mod N] = max_priority for
\* k = 0..b-1 (wrapping batches included) and every other priority is
\* unchanged. Tree variant: the leaf at the written ring position holds
\* max_priority.
CE_C12_PushSeedsMaxPriority ==
    [][(result'.op = "push" /\ kind \in {"flat", "tree"}) =>
          /\ kind = "flat" =>
                \A i \in 0..(capacity - 1) :
                    priorities'[i] = IF i \in Written(position, result'.n)
                                     THEN max_priority
                                     ELSE priorities[i]
          /\ kind = "tree" =>
                tree'[capacity - 1 + write] = max_priority]_vars

\* C13: for every successful sample call of the flat and the tree priority
\* samplers, every returned importance weight is > 0, no weight exceeds 1
\* and the largest one is 1 (weights are fractions <<numerator,
\* denominator>>).
Thm_C13_WeightsNormalized ==
    (/\ kind \in {"flat", "tree"}
     /\ result.op = "sample"
     /\ result.status = "ok")
    => /\ Len(result.weights) = result.n
       /\ \A k \in DOMAIN result.weights :
              /\ Len(result.weights[k]) = 2
              /\ result.weights[k][1] > 0
              /\ result.weights[k][2] > 0
              /\ result.weights[k][1] <= result.weights[k][2]
       /\ \E k \in DOMAIN result.weights :
              result.weights[k][1] = result.weights[k][2]

\* a batch of two leaves of different priority, with beta = 1: the leaf
\* of the larger priority has a weight below 1
Wit_C13_UnequalWeights ==
    /\ kind = "tree"
    /\ result.op = "sample"
    /\ result.status = "ok"
    /\ result.n = 2
    /\ \E k \in DOMAIN result.weights :
           result.weights[k][1] < result.weights[k][2]

\* C14: the tree variant samples with replacement, so that a batch naming
\* the same leaf index twice is reachable (Wit_C14_TreeDuplicate), whereas
\* a batch of the flat-array variant never contains a duplicate index.
\* In the loop of the tree sampler every leaf collected so far can still
\* be drawn by the next turn.
Thm_C14_FlatBatchNoDuplicate ==
    /\ (kind = "flat" /\ result.op = "sample") =>
          \A j, k \in DOMAIN result.indices :
              result.indices[j] = result.indices[k] => j = k
    /\ (kind = "tree" /\ pc = "sampling") =>
          \A k \in DOMAIN loop.idxs :
              \E s \in Uniform(ST_total) : ST_get(s).idx = loop.idxs[k]

\* a tree sample of two entries returned the same leaf twice while the
\* tree held two entries
Wit_C14_TreeDuplicate ==
    /\ kind = "tree"
    /\ n_entries >= 2
    /\ result.op = "sample"
    /\ result.status = "ok"
    /\ result.n = 2
    /\ result.indices[1] = result.indices[2]

(***************************************************************************)
(* Sum tree walks                                                          *)
(***************************************************************************)
\* the proper ancestors of node idx: its parent (idx - 1) // 2 and so on up
\* to the root
RECURSIVE Ancestors(_)
Ancestors(idx) ==
    IF idx <= 0 THEN {}
    ELSE {(idx - 1) \div 2} \cup Ancestors((idx - 1) \div 2)

\* C15 as stated: SumTree.update, and with it add, terminates for every
\* positive capacity (capacity 1 included) and every leaf index: the leaf
\* gets the new priority, each proper ancestor of the leaf gets the change
\* exactly once, up to the root, and no other node is modified.
CE_C15_PropagateTerminates ==
    [][(kind = "sumtree" /\ result'.op \in {"add", "update"}) =>
          LET leaf   == IF result'.op = "update" THEN result'.indices[1]
                        ELSE capacity - 1 + write
              p      == result'.errors[1]
              change == p - tree[leaf]
          IN  /\ result'.status = "ok"
              /\ \A i \in 0..(TreeLen - 1) :
                    tree'[i] = IF i = leaf THEN p
                               ELSE IF i \in Ancestors(leaf)
                                    THEN tree[i] + change
                                    ELSE tree[i]]_vars

\* the leaves below node idx
RECURSIVE LeavesUnder(_)
LeavesUnder(idx) ==
    IF 2 * idx + 1 >= TreeLen THEN {idx}
    ELSE LeavesUnder(2 * idx + 1) \cup LeavesUnder(2 * idx + 2)

\* the leaves to the left of node idx, in the left-to-right order of the
\* tree: those below the left sibling of idx or of one of its ancestors
RECURSIVE LeftOf(_)
LeftOf(idx) ==
    IF idx <= 0 THEN {}
    ELSE (IF idx % 2 = 0 THEN LeavesUnder(idx - 1) ELSE {})
             \cup LeftOf((idx - 1) \div 2)

\* C16: SumTree.get(s) for s in [0, total()) ends at a leaf index of
\* [capacity-1, 2*capacity-2] such that, with the leaves ordered left to
\* right in the tree, (sum of the priorities of the leaves to its left)
\* <= s <= (that sum + the priority of the leaf); the priority and the
\* payload returned are those of that leaf.
Thm_C16_InverseCdf ==
    (/\ kind = "sumtree"
     /\ result.op = "get"
     /\ 0 <= result.s
     /\ result.s < ST_total)
    => LET idx  == result.indices[1]
           left == SumOver(tree, LeftOf(idx))
       IN  /\ result.status = "ok"
           /\ idx \in Leaves
           /\ left <= result.s
           /\ result.s <= left + tree[idx]
           /\ result.errors[1] = tree[idx]
           /\ result.payload = data[idx - capacity + 1]

\* in a full tree of capacity 3 a value above the sum of the two deepest
\* leaves ends at leaf 2, the last one in tree order
Wit_C16_LastLeafInTreeOrder ==
    /\ kind = "sumtree"
    /\ capacity = 3
    /\ n_entries = 3
    /\ result.op = "get"
    /\ result.indices = <<2>>
    /\ tree[3] + tree[4] > 0
    /\ result.s > tree[3] + tree[4]
    /\ result.s < ST_total

(***************************************************************************)
(* Termination of the tree sampler, checked under FairSpec                 *)
(***************************************************************************)
\* C17: in the tree variant, sample(batch_size, beta) called with
\* entry_count >= batch_size >= 1 eventually returns its batch, under fair
\* draws of the value s from [0, total()], in every reachable tree state
\* (a partly filled tree of capacity 3 included).
Thm_C17_TreeSampleReturns ==
    (kind = "tree" /\ pc = "sampling")
        ~> (pc = "idle" /\ result.op = "sample" /\ result.status = "ok")

\* a sample of one entry returned from a tree of capacity 3 that holds one
\* entry and two empty leaves
Wit_C17_ReturnedFromPartlyFilled ==
    /\ kind = "tree"
    /\ capacity = 3
    /\ n_entries = 1
    /\ data[1] = None
    /\ data[2] = None
    /\ pc = "idle"
    /\ result.op = "sample"
    /\ result.status = "ok"
    /\ result.indices = <<2>>

(***************************************************************************)
(* Ring of the sum tree                                                    *)
(***************************************************************************)
\* the number (from 0) of the most recent of k add calls that wrote ring
\* position j, for j < min(k, capacity)
MostRecent(j, k) == (k - 1) - ((k - 1 - j) % capacity)

\* C18 as stated: after k add calls on a tree of capacity C,
\* entry_count = min(k, C), write = k mod C, payload slot j < min(k, C)
\* holds the payload of the most recent add whose number is congruent to
\* j mod C, and leaf C-1+j holds the priority given in that add until an
\* update changes it: an add sets the leaf of its ring position to its
\* priority and leaves every other leaf as it was.
CE_C18_AddRing ==
    [][(kind = "sumtree" /\ result'.op = "add") =>
          /\ n_entries' = Min(pushed', capacity)
          /\ write' = pushed' % capacity
          /\ \A j \in 0..(Min(pushed', capacity) - 1) :
                data'[j] = Payload(MostRecent(j, pushed'))
          /\ tree'[capacity - 1 + write] = result'.errors[1]
          /\ \A i \in Leaves \ {capacity - 1 + write} :
                tree'[i] = tree[i]]_vars

(***************************************************************************)
(* Leaf priorities of the tree variant                                     *)
(***************************************************************************)
\* every internal node holds the sum of its two children
TreeSound ==
    \A i \in 0..(capacity - 2) : tree[i] = tree[2 * i + 1] + tree[2 * i + 2]

\* a leaf whose payload slot is filled has a priority above 0, a leaf
\* whose payload slot is empty has priority 0
LeafPriorities ==
    \A j \in 0..(capacity - 1) :
        IF data[j] # None THEN tree[capacity - 1 + j] > 0
        ELSE tree[capacity - 1 + j] = 0

\* the tree after pushes and priority updates of sampled entries
PositiveTree ==
    /\ TreeSound
    /\ LeafPriorities
    /\ n_entries >= 1 => ST_total > 0

\* C19: in the tree variant, after any sequence of push calls and
\* update_priorities calls whose indices were returned by an earlier
\* sample, every leaf with a filled payload has a priority > 0, every leaf
\* with an empty payload has priority 0, and total() > 0 whenever
\* entry_count >= 1. A sample returns indices of filled leaves only and a
\* filled leaf stays filled, so: the new buffer is such a tree, and each
\* push and each update_priorities call that names filled leaves only
\* takes such a tree to such a tree.
Thm_C19_FilledLeavesPositive ==
    /\ kind = "tree" => PositiveTree
    /\ [][(/\ kind = "tree"
           /\ PositiveTree
           /\ \/ result'.op = "push"
              \/ result'.op = "sample"
              \/ /\ result'.op = "update_priorities"
                 /\ FilledLeaves(result'.indices))
          => PositiveTree']_vars

\* after a sample, update_priorities with TD-error 0 on a filled leaf of
\* a partly filled tree: the leaf holds epsilon
Wit_C19_UpdatedToEpsilon ==
    /\ kind = "tree"
    /\ alpha = 1
    /\ n_entries < capacity
    /\ result.op = "update_priorities"
    /\ result.status = "ok"
    /\ result.errors = <<0>>
    /\ FilledLeaves(result.indices)
    /\ tree[result.indices[1]] = Epsilon
    /\ PositiveTree

(***************************************************************************)
(* Frame of sample                                                         *)
(***************************************************************************)
\* what a buffer holds: the write cursor, the occupancy count, the stored
\* transitions, the priorities or tree nodes and max_priority
Held ==
    <<capacity, alpha, position, size, states, actions, rewards, next_states,
      dones, priorities, max_priority, tree, data, write, n_entries>>

\* C20: sample is read-only on all three buffers: a sample call, whether
\* it returns or raises, and every turn of the loop of the tree sampler,
\* leaves the write cursor, the occupancy count, every stored transition,
\* every priority or tree node and max_priority unchanged.
Thm_C20_SampleReadOnly ==
    [][(result'.op = "sample" \/ pc = "sampling" \/ pc' = "sampling")
          => UNCHANGED Held]_vars

\* a sample returned from a full tree of capacity 2 whose priorities had
\* been updated beyond 1.0
Wit_C20_SampledAfterUpdate ==
    /\ kind = "tree"
    /\ capacity = 2
    /\ n_entries = 2
    /\ max_priority > One
    /\ pc = "idle"
    /\ result.op = "sample"
    /\ result.status = "ok"
    /\ result.n = 1

(***************************************************************************)
(* max_priority                                                            *)
(***************************************************************************)
\* no leaf of the tree has a priority above max_priority
LeavesBelowMax == \A i \in Leaves : tree[i] <= max_priority

\* C21 as stated: in the tree variant max_priority starts at 1.0, no push
\* and no update_priorities call lowers it, and in every reachable state
\* it is >= the priority of every leaf of the tree.
CE_C21_TreeMaxPriority ==
    [][kind = "tree" =>
          /\ result.op = "init" => max_priority = One
          /\ max_priority' >= max_priority
          /\ LeavesBelowMax
          /\ LeavesBelowMax']_vars

\* C22: in the flat-array variant max_priority is 1.0 in every reachable
\* state, whatever push and update_priorities calls were made, so that a
\* push seeds every slot it writes with priority exactly 1.0, and the
\* priority of every occupied slot lies in (0, 1.0].
Thm_C22_FlatMaxPriorityOne ==
    kind = "flat" =>
        /\ max_priority = One
        /\ \A i \in 0..(size - 1) :
              priorities[i] > 0 /\ priorities[i] <= One
        /\ result.op = "push" =>
              \A k \in 1..Min(result.n, capacity) :
                  priorities[(position - k) % capacity] = One

\* a push into a buffer of which one occupied slot had been given the
\* priority epsilon by update_priorities
Wit_C22_PushAfterUpdate ==
    /\ kind = "flat"
    /\ capacity = 3
    /\ size = capacity
    /\ result.op = "push"
    /\ result.n = 1
    /\ \E i \in 0..(size - 1) : priorities[i] = Epsilon
    /\ max_priority = One

====
